---------------------------- MODULE Spec2Model ----------------------------
(***************************************************************************)
(* A model of scripts/compare_benchmarks.py: the log extractor             *)
(* (parse_log_file), the improvement calculator (calculate_improvement),   *)
(* the report renderer (compare_metrics) and the run selector (main).      *)
(*                                                                         *)
(* Numbers are kept in hundredths (60.40 is 6040).  A log line is a        *)
(* sequence of tokens separated by single spaces; the regular expressions  *)
(* of the source are modelled by what they find in such a line.            *)
(***************************************************************************)
EXTENDS Integers, Sequences, FiniteSets, TLC

VARIABLES
    pc,                 \* position of the running function
    content,            \* parse_log_file: the lines of the file read
    idx,                \* parse_log_file: index of the next line of the running pass
    current_test,       \* parse_log_file: the current-test context
    metrics,            \* parse_log_file: name -> BenchmarkMetrics
    baseline_metrics,   \* main: parse result of the baseline file
    optimized_metrics,  \* main: parse result of the optimized file
    report,             \* main: what compare_metrics returned
    baseline,           \* calculate_improvement: argument
    optimized,          \* calculate_improvement: argument
    lower_is_better,    \* calculate_improvement: argument
    result,             \* calculate_improvement: the returned pair
    args,               \* main: the parsed command line
    files,              \* main: the names in the directory given by --dir
    baseline_path,      \* main: the selected baseline file
    optimized_path,     \* main: the selected optimized file
    exit_status,        \* main: the status of sys.exit, -1 while running
    parsed              \* main: the files handed to parse_log_file, in order

vars == <<pc, content, idx, current_test, metrics, baseline_metrics,
          optimized_metrics, report, baseline, optimized, lower_is_better,
          result, args, files, baseline_path, optimized_path, exit_status,
          parsed>>

parseVars == <<content, idx, current_test, metrics>>
mainVars  == <<baseline_metrics, optimized_metrics, report>>
calcVars  == <<baseline, optimized, lower_is_better, result>>
selVars   == <<args, files, baseline_path, optimized_path, exit_status, parsed>>

(***************************************************************************)
(* Bounds of the model.                                                    *)
(***************************************************************************)
MaxLines   == 2     \* lines of a log file
MaxPhrases == 1     \* metric phrases after the opening of a log line
MaxValue   == 12    \* calculate_improvement is tried on 0 .. MaxValue hundredths
MaxFiles   == 3     \* files in the directory given by --dir

\* Python's None in an Optional[float] field (all values are non-negative).
None == -1

(***************************************************************************)
(* BenchmarkMetrics                                                        *)
(***************************************************************************)
BenchmarkMetrics(name) ==
    [name |-> name, p50_ms |-> None, p90_ms |-> None, p99_ms |-> None,
     max_ms |-> None, throughput_qps |-> None, count |-> None]

Fields == {"p50_ms", "p90_ms", "p99_ms", "max_ms", "throughput_qps"}

(***************************************************************************)
(* Log lines.  A token is a test declaration ("BENCHMARK(Suite, s)" when   *)
(* unit is "macro", "s: Count:" when unit is "count"), a metric phrase     *)
(* ("s: num unit", num written with two decimals) or a plain word.         *)
(***************************************************************************)
Decl(form, name)        == [t |-> "decl",   s |-> name,  num |-> <<0, 0>>, unit |-> form]
Metric(label, num, unit) == [t |-> "metric", s |-> label, num |-> num,      unit |-> unit]
Word(w)                 == [t |-> "word",   s |-> w,     num |-> <<0, 0>>, unit |-> ""]

\* float(text) of a captured decimal "w.ff", in hundredths.
Float(num) == num[1] * 100 + num[2]

LatencyUnits    == {"ms", "us", "mus"}                       \* ms|us|μs
ThroughputUnits == {"qps", "queries/sec", "samples/sec"}

\* pattern.search(line) of a "label[:\s]+(number)\s*(unit)" pattern: the
\* captured number of the leftmost match, None without a match.
RECURSIVE SearchFrom(_, _, _, _)
SearchFrom(line, i, labels, units) ==
    IF i > Len(line) THEN None
    ELSE IF line[i].t = "metric" /\ line[i].s \in labels /\ line[i].unit \in units
         THEN Float(line[i].num)
         ELSE SearchFrom(line, i + 1, labels, units)

p50_pattern(line) == SearchFrom(line, 1, {"P50", "p50"}, LatencyUnits)
p90_pattern(line) == SearchFrom(line, 1, {"P90", "p90"}, LatencyUnits)
p99_pattern(line) == SearchFrom(line, 1, {"P99", "p99"}, LatencyUnits)
max_pattern(line) == SearchFrom(line, 1, {"Max", "max"}, LatencyUnits)
qps_pattern(line) == SearchFrom(line, 1, {"Throughput", "throughput"}, ThroughputUnits)

\* test_pattern.search(line): the captured name of the leftmost declaration,
\* "" without a match.
RECURSIVE TestFrom(_, _)
TestFrom(line, i) ==
    IF i > Len(line) THEN ""
    ELSE IF line[i].t = "decl" THEN line[i].s ELSE TestFrom(line, i + 1)

test_pattern(line) == TestFrom(line, 1)

\* Latency p50[:\s]+(\d+\.?\d*)\s*ms : the leftmost "Latency" word directly
\* followed by a lower-case p50 phrase in ms.
RECURSIVE SummaryP50From(_, _)
SummaryP50From(line, i) ==
    IF i + 1 > Len(line) THEN None
    ELSE IF /\ line[i].t = "word" /\ line[i].s = "Latency"
            /\ line[i + 1].t = "metric" /\ line[i + 1].s = "p50"
            /\ line[i + 1].unit = "ms"
         THEN Float(line[i + 1].num)
         ELSE SummaryP50From(line, i + 1)

summary_p50_pattern(line) == SummaryP50From(line, 1)

\* Read.*p99[:\s]+(\d+\.?\d*)\s*ms : the greedy .* takes the last lower-case
\* p99 phrase in ms that follows the first "Read".
summary_read_p99_pattern(line) ==
    LET reads == {i \in 1..Len(line) : line[i].t = "word" /\ line[i].s = "Read"}
        first == IF reads = {} THEN 0
                 ELSE CHOOSE i \in reads : \A j \in reads : i <= j
        hits  == {j \in 1..Len(line) :
                     /\ first > 0 /\ j > first
                     /\ line[j].t = "metric" /\ line[j].s = "p99"
                     /\ line[j].unit = "ms"}
    IN  IF hits = {} THEN None
        ELSE Float(line[CHOOSE j \in hits : \A k \in hits : k <= j].num)

\* 'p50' in line.lower(), 'p99' in line.lower()
ContainsP50(line) == \E i \in 1..Len(line) : line[i].s \in {"P50", "p50"}
ContainsP99(line) == \E i \in 1..Len(line) : line[i].s \in {"P99", "p99"}

(***************************************************************************)
(* parse_log_file, first pass: the body of the loop over the lines.        *)
(* st is [metrics, current_test]; the result is the same pair afterwards.  *)
(***************************************************************************)
Put(ms, name, rec) ==
    [n \in DOMAIN ms \cup {name} |-> IF n = name THEN rec ELSE ms[n]]

\* Declare with a fresh record on every declaration, also of a known name.
DeclareFresh(ms, ct, line) ==
    LET name == test_pattern(line)
    IN  IF name = "" THEN [metrics |-> ms, current_test |-> ct]
        ELSE [metrics |-> Put(ms, name, BenchmarkMetrics(name)),
              current_test |-> name]

Declare(ms, ct, line) ==
    LET name == test_pattern(line)
    IN  IF name = "" THEN [metrics |-> ms, current_test |-> ct]
        ELSE [metrics |-> IF name \in DOMAIN ms THEN ms
                          ELSE Put(ms, name, BenchmarkMetrics(name)),
              current_test |-> name]

Extract(m, line) ==
    LET v50 == p50_pattern(line)
        v90 == p90_pattern(line)
        v99 == p99_pattern(line)
        vmx == max_pattern(line)
        vqp == qps_pattern(line)
    IN  [m EXCEPT !.p50_ms = IF v50 # None THEN v50 ELSE @,
                  !.p90_ms = IF v90 # None THEN v90 ELSE @,
                  !.p99_ms = IF v99 # None THEN v99 ELSE @,
                  !.max_ms = IF vmx # None THEN vmx ELSE @,
                  !.throughput_qps = IF vqp # None THEN vqp ELSE @]

ScanLine(ms, ct, line) ==
    LET d == Declare(ms, ct, line)
        m == IF d.current_test \in DOMAIN d.metrics
             THEN d.metrics[d.current_test]
             ELSE BenchmarkMetrics(d.current_test)
    IN  [metrics |-> Put(d.metrics, d.current_test, Extract(m, line)),
         current_test |-> d.current_test]

(***************************************************************************)
(* parse_log_file, second pass: the body of the loop over the lines, the   *)
(* two summary patterns tried in order.                                    *)
(***************************************************************************)
ApplySummary(ms, line, match) ==
    IF match # None /\ "overall" \in DOMAIN ms
    THEN IF ContainsP50(line)
         THEN [ms EXCEPT !["overall"].p50_ms = match]
         ELSE IF ContainsP99(line)
              THEN [ms EXCEPT !["overall"].p99_ms = match]
              ELSE ms
    ELSE ms

OverrideLine(ms, line) ==
    ApplySummary(ApplySummary(ms, line, summary_p50_pattern(line)),
                 line, summary_read_p99_pattern(line))

\* parse_log_file as a whole: both passes over the lines of one file.
RECURSIVE ScanAll(_, _, _, _)
ScanAll(lines, i, ms, ct) ==
    IF i > Len(lines) THEN ms
    ELSE LET st == ScanLine(ms, ct, lines[i])
         IN  ScanAll(lines, i + 1, st.metrics, st.current_test)

RECURSIVE OverrideAll(_, _, _)
OverrideAll(lines, i, ms) ==
    IF i > Len(lines) THEN ms
    ELSE OverrideAll(lines, i + 1, OverrideLine(ms, lines[i]))

EmptyMetrics == [n \in {} |-> BenchmarkMetrics(n)]

parse_log_file(lines) ==
    OverrideAll(lines, 1, ScanAll(lines, 1, EmptyMetrics, "overall"))

(***************************************************************************)
(* The inputs tried.  content.split('\n') always yields at least one line, *)
(* the empty line for an empty file.                                       *)
(***************************************************************************)
SeqsUpTo(S, n) == UNION {[1..k -> S] : k \in 0..n}
NonEmptySeqsUpTo(S, n) == UNION {[1..k -> S] : k \in 1..n}

\* A line is an opening (nothing, a test declaration, the words of a summary
\* line) followed by metric phrases.
LinesOf(openings, phrases, n) ==
    {o \o l : o \in openings, l \in SeqsUpTo(phrases, n)}

\* Lines with test declarations, latency and throughput values.
ParseOpenings ==
    {<<>>, <<Decl("macro", "SLA_Compliance")>>, <<Decl("count", "overall")>>}

ParsePhrases ==
    {Metric("P50", <<1, 0>>, "ms"), Metric("P50", <<2, 50>>, "ms"),
     Metric("Throughput", <<3, 0>>, "qps")}

ParseLogs ==
    NonEmptySeqsUpTo(LinesOf(ParseOpenings, ParsePhrases, MaxPhrases), MaxLines)

\* Lines with the words and phrases of the summary patterns; a summary line
\* may carry its p50 and its p99 together.
SummaryOpenings ==
    {<<>>, <<Word("Read")>>, <<Word("Latency")>>,
     <<Word("Read"), Word("Latency")>>, <<Decl("macro", "SLA_Compliance")>>}

SummaryPhrases ==
    {Metric("p50", <<10, 0>>, "ms"), Metric("p99", <<20, 0>>, "ms"),
     Metric("P50", <<7, 0>>, "ms")}

SummaryLogs ==
    NonEmptySeqsUpTo(LinesOf(SummaryOpenings, SummaryPhrases, MaxPhrases + 1),
                     MaxLines)

(***************************************************************************)
(* Idle values of the variables a specification does not use.              *)
(***************************************************************************)
NoResult == [raised |-> FALSE, applicable |-> FALSE, improvement |-> <<0, 1>>,
             text |-> "", color |-> "", sign |-> "", negative |-> FALSE,
             tenths |-> 0, speedup |-> None]
NoArgs   == [dir |-> FALSE, baseline |-> <<>>, optimized |-> <<>>]

ParseIdle == content = <<>> /\ idx = 0 /\ current_test = "" /\ metrics = EmptyMetrics
MainIdle  == baseline_metrics = EmptyMetrics /\ optimized_metrics = EmptyMetrics
             /\ report = [latency |-> <<>>, throughput |-> <<>>, sla |-> <<>>]
CalcIdle  == baseline = None /\ optimized = None /\ lower_is_better = TRUE
             /\ result = NoResult
SelIdle   == args = NoArgs /\ files = {} /\ baseline_path = <<>>
             /\ optimized_path = <<>> /\ exit_status = -1 /\ parsed = <<>>

(***************************************************************************)
(* parse_log_file, line by line.                                           *)
(***************************************************************************)
ParseInit(logs) ==
    /\ pc = "scan"
    /\ content \in logs
    /\ idx = 1
    /\ current_test = "overall"
    /\ metrics = EmptyMetrics
    /\ MainIdle /\ CalcIdle /\ SelIdle

\* One iteration of the first loop (lines 54-85).
ScanStep ==
    /\ pc = "scan" /\ idx <= Len(content)
    /\ LET st == ScanLine(metrics, current_test, content[idx])
       IN  /\ metrics' = st.metrics
           /\ current_test' = st.current_test
    /\ idx' = idx + 1
    /\ UNCHANGED <<pc, content>>
    /\ UNCHANGED <<mainVars, calcVars, selVars>>

\* The first loop ends; the second starts at the first line again.
ScanEnd ==
    /\ pc = "scan" /\ idx > Len(content)
    /\ pc' = "override" /\ idx' = 1
    /\ UNCHANGED <<content, current_test, metrics>>
    /\ UNCHANGED <<mainVars, calcVars, selVars>>

\* One iteration of the second loop (lines 95-102).
OverrideStep ==
    /\ pc = "override" /\ idx <= Len(content)
    /\ metrics' = OverrideLine(metrics, content[idx])
    /\ idx' = idx + 1
    /\ UNCHANGED <<pc, content, current_test>>
    /\ UNCHANGED <<mainVars, calcVars, selVars>>

\* return metrics
ParseReturn ==
    /\ pc = "override" /\ idx > Len(content)
    /\ pc' = "returned"
    /\ UNCHANGED <<content, idx, current_test, metrics>>
    /\ UNCHANGED <<mainVars, calcVars, selVars>>

ParseNext == ScanStep \/ ScanEnd \/ OverrideStep \/ ParseReturn

ParseSpec   == ParseInit(ParseLogs) /\ [][ParseNext]_vars
SummarySpec == ParseInit(SummaryLogs) /\ [][ParseNext]_vars

\* The line-by-line run returns what parse_log_file computes.
ParseAgrees == pc = "returned" => metrics = parse_log_file(content)

(***************************************************************************)
(* calculate_improvement.  The returned pair is a record: applicable is    *)
(* FALSE when the first component is None; improvement is the percentage   *)
(* as an exact fraction <<numerator, denominator>>; text is the shape of   *)
(* the display string, whose parts are color ("" when the string carries   *)
(* no escape sequence), sign, negative (a "-" printed by the number        *)
(* format), tenths (the percentage's magnitude to one decimal, in tenths)  *)
(* and speedup (to one decimal, in tenths; None when the string has no     *)
(* multiplier).  raised tells that the call ended in an exception.         *)
(***************************************************************************)
\* float('inf') as a speedup
Inf == -2

\* f"{x:.1f}" of the non-negative x = num / den, in tenths: nearest, ties to even.
\* (Python rounds the binary value of x; on the values used here that is the
\* rounding of the exact quotient.)
Format1f(num, den) ==
    LET q == (num * 10) \div den
        r == (num * 10) % den
    IN  IF 2 * r > den \/ (2 * r = den /\ q % 2 = 1) THEN q + 1 ELSE q

Abs(x) == IF x < 0 THEN -x ELSE x

NotApplicable(text) == [NoResult EXCEPT !.text = text]

ZeroDivisionError == [NoResult EXCEPT !.raised = TRUE]

\* baseline is None or optimized is None
MissingInput(b, o) == b = None \/ o = None

\* ZeroBaseline with the test for a zero baseline left out.
ZeroBaselineUnchecked(b) == FALSE

\* baseline == 0
ZeroBaseline(b) == b = 0

\* Positive with >= for >.
PositiveOrZero(num) == num >= 0

\* improvement > 0, improvement being num / b * 100 with b > 0
Positive(num) == num > 0

calculate_improvement(b, o, low) ==
    IF MissingInput(b, o) THEN NotApplicable("N/A")
    ELSE IF ZeroBaseline(b) THEN NotApplicable("N/A (baseline=0)")
    ELSE LET num == IF low THEN b - o ELSE o - b
             sn  == IF low THEN b ELSE o        \* speedup = sn / sd
             sd  == IF low THEN o ELSE b
             inf == ~(sd > 0)
             positive == Positive(num)
             color == IF positive THEN "green" ELSE "red"
             sign  == IF positive THEN "+" ELSE ""
             shown == inf \/ sn * 10 > sd * 11   \* abs(speedup) > 1.1
             pct   == [raised |-> FALSE, applicable |-> TRUE,
                       improvement |-> <<num * 100, b>>,
                       text |-> "%", color |-> "", sign |-> sign,
                       negative |-> num < 0,
                       tenths |-> Format1f(Abs(num) * 100, b),
                       speedup |-> None]
         IN  IF b = 0 THEN ZeroDivisionError
             ELSE IF shown
                  THEN [pct EXCEPT !.text = "% (x)", !.color = color,
                                   !.speedup = IF inf THEN Inf
                                               ELSE Format1f(sn, sd)]
                  ELSE pct

CalcValues == (0..MaxValue) \cup {3020, 6040, 20000}

CalcInit ==
    /\ pc = "call"
    /\ baseline \in CalcValues \cup {None}
    /\ optimized \in CalcValues \cup {None}
    /\ lower_is_better \in BOOLEAN
    /\ result = NoResult
    /\ ParseIdle /\ MainIdle /\ SelIdle

Calculate ==
    /\ pc = "call"
    /\ result' = calculate_improvement(baseline, optimized, lower_is_better)
    /\ pc' = "returned"
    /\ UNCHANGED <<baseline, optimized, lower_is_better>>
    /\ UNCHANGED <<parseVars, mainVars, selVars>>

CalcNext == Calculate

CalcSpec == CalcInit /\ [][CalcNext]_vars

(***************************************************************************)
(* compare_metrics.  The report is kept by section: the lines of the       *)
(* latency table, of the throughput table and of the SLA section, each a   *)
(* record of the values formatted into it.                                 *)
(***************************************************************************)
key_metrics ==
    <<"overall", "SLA_Compliance", "RangeQuery_1Hour_1MinStep",
      "InstantQuery_SimpleSelector", "InstantQuery_RateFunction">>

\* dict.get(name, BenchmarkMetrics(name=name))
Get(ms, name) == IF name \in DOMAIN ms THEN ms[name] ELSE BenchmarkMetrics(name)

\* bool(v) of an Optional[float]: None and 0.0 are false.
Truthy(v) == v # None /\ v # 0

\* f"{v or 'N/A':>8}"
Slot(v) == IF Truthy(v) THEN [text |-> "number", value |-> v]
           ELSE [text |-> "N/A", value |-> None]

LatencyLines(b, o, test_name) ==
    <<[test |-> test_name, metric |-> "P50",
       baseline |-> Slot(b.p50_ms), optimized |-> Slot(o.p50_ms),
       improvement |-> calculate_improvement(b.p50_ms, o.p50_ms, TRUE)],
      [test |-> test_name, metric |-> "P99",
       baseline |-> Slot(b.p99_ms), optimized |-> Slot(o.p99_ms),
       improvement |-> calculate_improvement(b.p99_ms, o.p99_ms, TRUE)]>>

ThroughputLines(b, o, test_name) ==
    IF b.throughput_qps # None \/ o.throughput_qps # None
    THEN <<[test |-> test_name, metric |-> "qps",
            baseline |-> Slot(b.throughput_qps),
            optimized |-> Slot(o.throughput_qps),
            improvement |-> calculate_improvement(b.throughput_qps,
                                                  o.throughput_qps, FALSE)]>>
    ELSE <<>>

\* One of the two loops over key_metrics, from its i-th name on.
RECURSIVE Section(_, _, _, _)
Section(bm, om, i, latency) ==
    IF i > Len(key_metrics) THEN <<>>
    ELSE LET test_name == key_metrics[i]
             b == Get(bm, test_name)
             o == Get(om, test_name)
             here == IF test_name \in DOMAIN bm \/ test_name \in DOMAIN om
                     THEN IF latency THEN LatencyLines(b, o, test_name)
                          ELSE ThroughputLines(b, o, test_name)
                     ELSE <<>>
         IN  here \o Section(bm, om, i + 1, latency)

\* The SLA targets, in hundredths: (name, field, target, lower_is_better).
SlaTargets ==
    <<[name |-> "p50 <= 50ms", field |-> "p50_ms", target |-> 5000, lower |-> TRUE],
      [name |-> "p99 <= 500ms", field |-> "p99_ms", target |-> 50000, lower |-> TRUE],
      [name |-> "Throughput >= 100 qps", field |-> "throughput_qps",
       target |-> 10000, lower |-> FALSE]>>

SlaStatus(value, target, lower) ==
    IF value = None THEN "N/A"
    ELSE IF lower THEN (IF value <= target THEN "PASS" ELSE "FAIL")
         ELSE (IF value >= target THEN "PASS" ELSE "FAIL")

\* optimized.get('SLA_Compliance') or optimized.get('overall'): a record is
\* always true, so the first one present; <<>> stands for None.
SlaMetrics(om) ==
    IF "SLA_Compliance" \in DOMAIN om THEN <<om["SLA_Compliance"]>>
    ELSE IF "overall" \in DOMAIN om THEN <<om["overall"]>>
    ELSE <<>>

SlaLines(om) ==
    LET sla_metrics == SlaMetrics(om)
    IN  IF sla_metrics # <<>>
        THEN [k \in 1..Len(SlaTargets) |->
                 LET t == SlaTargets[k]
                     value == sla_metrics[1][t.field]
                 IN  [name |-> t.name, field |-> t.field, value |-> Slot(value),
                      status |-> SlaStatus(value, t.target, t.lower)]]
        ELSE <<>>

compare_metrics(bm, om) ==
    [latency    |-> Section(bm, om, 1, TRUE),
     throughput |-> Section(bm, om, 1, FALSE),
     sla        |-> SlaLines(om)]

NoReport == [latency |-> <<>>, throughput |-> <<>>, sla |-> <<>>]

(***************************************************************************)
(* main with two explicit paths: both files are parsed, then compared.     *)
(* What a file holds is read when it is parsed.                            *)
(***************************************************************************)
ReportOpenings ==
    {<<>>, <<Decl("macro", "RangeQuery_1Hour_1MinStep")>>}

ReportPhrases ==
    {Metric("P50", <<60, 40>>, "ms"), Metric("P50", <<30, 20>>, "ms"),
     Metric("P50", <<0, 0>>, "ms"), Metric("P99", <<200, 0>>, "ms"),
     Metric("Throughput", <<150, 0>>, "qps")}

ReportLogs ==
    NonEmptySeqsUpTo(LinesOf(ReportOpenings, ReportPhrases, MaxPhrases), MaxLines)

\* What parse_log_file returns on these files.
ReportParseResults == {parse_log_file(c) : c \in ReportLogs}

ReportInit ==
    /\ pc = "start"
    /\ baseline_metrics = EmptyMetrics
    /\ optimized_metrics = EmptyMetrics
    /\ report = NoReport
    /\ ParseIdle /\ CalcIdle /\ SelIdle

\* baseline_metrics = parse_log_file(baseline_path)
ParseBaseline ==
    /\ pc = "start"
    /\ baseline_metrics' \in ReportParseResults
    /\ pc' = "baseline_parsed"
    /\ UNCHANGED <<optimized_metrics, report>>
    /\ UNCHANGED <<parseVars, calcVars, selVars>>

\* optimized_metrics = parse_log_file(optimized_path)
ParseOptimized ==
    /\ pc = "baseline_parsed"
    /\ optimized_metrics' \in ReportParseResults
    /\ pc' = "optimized_parsed"
    /\ UNCHANGED <<baseline_metrics, report>>
    /\ UNCHANGED <<parseVars, calcVars, selVars>>

\* report = compare_metrics(baseline_metrics, optimized_metrics)
Compare ==
    /\ pc = "optimized_parsed"
    /\ report' = compare_metrics(baseline_metrics, optimized_metrics)
    /\ pc' = "reported"
    /\ UNCHANGED <<baseline_metrics, optimized_metrics>>
    /\ UNCHANGED <<parseVars, calcVars, selVars>>

ReportNext == ParseBaseline \/ ParseOptimized \/ Compare

ReportSpec == ReportInit /\ [][ReportNext]_vars

(***************************************************************************)
(* main: the run selector.  A file name is its sequence of character       *)
(* codes, so that sorted() orders names as Python orders strings.          *)
(***************************************************************************)
StrBaseline  == <<98, 97, 115, 101, 108, 105, 110, 101>>           \* "baseline"
StrAfter     == <<97, 102, 116, 101, 114>>                         \* "after"
StrOptimized == <<111, 112, 116, 105, 109, 105, 122, 101, 100>>    \* "optimized"
StrRun       == <<114, 117, 110>>                                  \* "run"
StrLog       == <<46, 108, 111, 103>>                              \* ".log"
StrTxt       == <<46, 116, 120, 116>>                              \* ".txt"
Str2024      == <<95, 50, 48, 50, 52>>                             \* "_2024"
Str2025      == <<95, 50, 48, 50, 53>>                             \* "_2025"

\* baseline_2024.log, after_2025.txt, baseline_after_2025.log, ...
FileNames ==
    {k \o y \o e :
        k \in {StrBaseline, StrAfter, StrOptimized, StrRun,
               StrBaseline \o <<95>> \o StrAfter},
        y \in {Str2024, Str2025},
        e \in {StrLog, StrTxt}}

\* a < b for strings
RECURSIVE StrLess(_, _)
StrLess(a, b) ==
    IF b = <<>> THEN FALSE
    ELSE IF a = <<>> THEN TRUE
    ELSE IF Head(a) # Head(b) THEN Head(a) < Head(b)
    ELSE StrLess(Tail(a), Tail(b))

\* sorted(names)
RECURSIVE sorted(_)
sorted(names) ==
    IF names = {} THEN <<>>
    ELSE LET least == CHOOSE n \in names : \A m \in names \ {n} : StrLess(n, m)
         IN  <<least>> \o sorted(names \ {least})

\* results_dir.glob('*<mid>*.log'): the names holding mid before a final ".log"
Glob(dir, mid) ==
    {n \in dir :
        /\ Len(n) >= Len(mid) + Len(StrLog)
        /\ SubSeq(n, Len(n) - Len(StrLog) + 1, Len(n)) = StrLog
        /\ \E i \in 1..(Len(n) - Len(StrLog) - Len(mid) + 1) :
               SubSeq(n, i, i + Len(mid) - 1) = mid}

\* bool(generator): Path.glob returns a generator, and a generator is true
\* whatever it will yield.
GeneratorTruth(matches) == TRUE

\* a or b, a being what glob returned
GlobOr(a, b) == IF GeneratorTruth(a) THEN a ELSE b

\* Latest with files[0] for files[-1].
Earliest(file_list) == file_list[1]

\* files[-1]
Latest(file_list) == file_list[Len(file_list)]

baseline_files(dir) == sorted(Glob(dir, StrBaseline))

optimized_files(dir) == sorted(GlobOr(Glob(dir, StrAfter), Glob(dir, StrOptimized)))

\* The directories tried: up to MaxFiles of the names.
Dirs == {{}} \cup {{f[i] : i \in 1..MaxFiles} : f \in [1..MaxFiles -> FileNames]}

\* A positional argument: absent, or a path.
Positional ==
    {<<>>, StrBaseline \o Str2024 \o StrLog, StrOptimized \o Str2025 \o StrLog}

SelInit ==
    /\ pc = "start"
    /\ \/ /\ args \in [dir : {TRUE}, baseline : {<<>>}, optimized : {<<>>}]
          /\ files \in Dirs
       \/ /\ args \in [dir : {FALSE}, baseline : Positional, optimized : Positional]
          /\ files = {}
    /\ baseline_path = <<>>
    /\ optimized_path = <<>>
    /\ exit_status = -1
    /\ parsed = <<>>
    /\ ParseIdle /\ MainIdle /\ CalcIdle

\* --dir, no baseline file: the message and sys.exit(1)
NoBaselineExit ==
    /\ pc = "start" /\ args.dir
    /\ baseline_files(files) = <<>>
    /\ exit_status' = 1
    /\ pc' = "exited"
    /\ UNCHANGED <<args, files, baseline_path, optimized_path, parsed>>
    /\ UNCHANGED <<parseVars, mainVars, calcVars>>

\* --dir: the latest baseline and the latest optimized file
SelectFromDir ==
    /\ pc = "start" /\ args.dir
    /\ baseline_files(files) # <<>>
    /\ baseline_path' = Latest(baseline_files(files))
    /\ optimized_path' = IF optimized_files(files) # <<>>
                         THEN Latest(optimized_files(files))
                         ELSE Latest(baseline_files(files))
    /\ pc' = "selected"
    /\ UNCHANGED <<args, files, exit_status, parsed>>
    /\ UNCHANGED <<parseVars, mainVars, calcVars>>

\* no --dir, a positional argument missing: the help and sys.exit(1)
UsageExit ==
    /\ pc = "start" /\ ~args.dir
    /\ args.baseline = <<>> \/ args.optimized = <<>>
    /\ exit_status' = 1
    /\ pc' = "exited"
    /\ UNCHANGED <<args, files, baseline_path, optimized_path, parsed>>
    /\ UNCHANGED <<parseVars, mainVars, calcVars>>

\* no --dir: the two paths given
SelectExplicit ==
    /\ pc = "start" /\ ~args.dir
    /\ args.baseline # <<>> /\ args.optimized # <<>>
    /\ baseline_path' = args.baseline
    /\ optimized_path' = args.optimized
    /\ pc' = "selected"
    /\ UNCHANGED <<args, files, exit_status, parsed>>
    /\ UNCHANGED <<parseVars, mainVars, calcVars>>

\* baseline_metrics = parse_log_file(baseline_path)
OpenBaseline ==
    /\ pc = "selected"
    /\ parsed' = Append(parsed, baseline_path)
    /\ pc' = "baseline_parsed"
    /\ UNCHANGED <<args, files, baseline_path, optimized_path, exit_status>>
    /\ UNCHANGED <<parseVars, mainVars, calcVars>>

\* optimized_metrics = parse_log_file(optimized_path)
OpenOptimized ==
    /\ pc = "baseline_parsed"
    /\ parsed' = Append(parsed, optimized_path)
    /\ pc' = "optimized_parsed"
    /\ UNCHANGED <<args, files, baseline_path, optimized_path, exit_status>>
    /\ UNCHANGED <<parseVars, mainVars, calcVars>>

SelNext ==
    \/ NoBaselineExit \/ SelectFromDir \/ UsageExit \/ SelectExplicit
    \/ OpenBaseline \/ OpenOptimized

SelSpec == SelInit /\ [][SelNext]_vars

(***************************************************************************)
(* The run selector's properties (SelSpec).                                *)
(***************************************************************************)
\* The greatest name of a non-empty set under the string order.
Greatest(names) == CHOOSE n \in names : \A m \in names : m = n \/ StrLess(m, n)

Selected == pc \in {"selected", "baseline_parsed", "optimized_parsed"}

\* C1: in directory mode, with a baseline file, no *after*.log file and at
\* least one *optimized*.log file, the optimized side is the lexically last
\* *optimized*.log file.
OptimizedFallback ==
    (/\ Selected /\ args.dir
     /\ Glob(files, StrBaseline) # {}
     /\ Glob(files, StrAfter) = {}
     /\ Glob(files, StrOptimized) # {})
    => optimized_path = Greatest(Glob(files, StrOptimized))

\* C7: in directory mode the baseline chosen is the lexically greatest
\* *baseline*.log file, the optimized file is the lexically greatest
\* *after*.log file when there is one, and without a baseline file the run
\* ends with a non-zero status before any file is parsed.
LexicalLastSelection ==
    /\ (Selected /\ args.dir) =>
          /\ Glob(files, StrBaseline) # {}
          /\ baseline_path = Greatest(Glob(files, StrBaseline))
          /\ Glob(files, StrAfter) # {} =>
                optimized_path = Greatest(Glob(files, StrAfter))
    /\ (args.dir /\ Glob(files, StrBaseline) = {} /\ pc # "start") =>
          /\ pc = "exited"
          /\ exit_status > 0
          /\ parsed = <<>>

\* baseline_2024.log, baseline_2025.log and after_2025.log were in the
\* directory; baseline_2025.log and after_2025.log were parsed.
LexicalLastWitness ==
    /\ pc = "optimized_parsed" /\ args.dir
    /\ files = {StrBaseline \o Str2024 \o StrLog, StrBaseline \o Str2025 \o StrLog,
                StrAfter \o Str2025 \o StrLog}
    /\ parsed = <<StrBaseline \o Str2025 \o StrLog, StrAfter \o Str2025 \o StrLog>>

(***************************************************************************)
(* The improvement calculator's properties (CalcSpec).                     *)
(***************************************************************************)
\* C2: an applicable result with improvement > 0 is shown with "+" and the
\* good (green) indicator, one with improvement <= 0 without "+" and with
\* the bad (red) indicator.
DisplayRule ==
    (pc = "returned" /\ result.applicable) =>
        IF result.improvement[1] > 0
        THEN result.sign = "+" /\ result.color = "green"
        ELSE result.sign = "" /\ result.color = "red"

\* C3: calculate_improvement never raises; it returns (None, "N/A") when an
\* input is absent, and (None, "N/A (baseline=0)") when both are present and
\* the baseline is zero; the two markers tell the two cases apart.
NotApplicableOutcomes ==
    pc = "returned" =>
        /\ ~result.raised
        /\ (baseline = None \/ optimized = None) =>
              (~result.applicable /\ result.text = "N/A")
        /\ (baseline = 0 /\ optimized # None) =>
              (~result.applicable /\ result.text = "N/A (baseline=0)")
        /\ result.text = "N/A" => (baseline = None \/ optimized = None)
        /\ result.text = "N/A (baseline=0)" => (baseline = 0 /\ optimized # None)

\* A zero baseline with a present optimized value was answered.
ZeroBaselineWitness ==
    /\ pc = "returned" /\ baseline = 0 /\ optimized = 5
    /\ result.text = "N/A (baseline=0)"

(***************************************************************************)
(* The log extractor's properties (ParseSpec, SummarySpec).                *)
(***************************************************************************)
\* The context in force once line i's own declaration has been applied.
RECURSIVE ContextAt(_, _)
ContextAt(lines, i) ==
    IF i = 0 THEN "overall"
    ELSE IF test_pattern(lines[i]) # "" THEN test_pattern(lines[i])
    ELSE ContextAt(lines, i - 1)

\* What the pattern of a field finds on a line.
FieldMatch(line, f) ==
    CASE f = "p50_ms" -> p50_pattern(line)
      [] f = "p90_ms" -> p90_pattern(line)
      [] f = "p99_ms" -> p99_pattern(line)
      [] f = "max_ms" -> max_pattern(line)
      [] f = "throughput_qps" -> qps_pattern(line)

\* The value a field of a record has by the attribution rule after the first
\* n lines: that of the last line in the record's context carrying the field.
Attributed(lines, n, name, f) ==
    LET hits == {i \in 1..n : /\ ContextAt(lines, i) = name
                              /\ FieldMatch(lines[i], f) # None}
    IN  IF hits = {} THEN None
        ELSE FieldMatch(lines[CHOOSE i \in hits : \A j \in hits : j <= i], f)

\* C6: throughout the first pass the context is the last declared name
\* ("overall" before any declaration), the records are those of the contexts
\* seen, and each field holds the value of the last line that carried it
\* while its record's context was in force, a declaring line counting for
\* the name it declares; a re-declaration resets nothing.
AttributionRule ==
    (pc = "scan" \/ (pc = "override" /\ idx = 1)) =>
        LET n == IF pc = "scan" THEN idx - 1 ELSE Len(content)
        IN  /\ current_test = ContextAt(content, n)
            /\ DOMAIN metrics = {ContextAt(content, i) : i \in 1..n}
            /\ \A name \in DOMAIN metrics :
                  /\ metrics[name].name = name
                  /\ metrics[name].count = None
                  /\ \A f \in Fields :
                        metrics[name][f] = Attributed(content, n, name, f)

\* A line declared SLA_Compliance and carried a P50; a second line declared
\* it again and carried a throughput: both values are in the record.
AttributionWitness ==
    /\ pc = "override" /\ idx = 1
    /\ content = <<<<Decl("macro", "SLA_Compliance"), Metric("P50", <<1, 0>>, "ms")>>,
                   <<Decl("macro", "SLA_Compliance"),
                     Metric("Throughput", <<3, 0>>, "qps")>>>>
    /\ metrics["SLA_Compliance"].p50_ms = 100
    /\ metrics["SLA_Compliance"].throughput_qps = 300

\* The result of the first pass over the whole file.
FirstPass == ScanAll(content, 1, EmptyMetrics, "overall")

\* C8: when "overall" exists after the first pass and a line matches
\* "Latency p50: X ms", the final overall.p50 is the X of the last such
\* line; without an "overall" record the override pass changes nothing.
SummaryOverrideWins ==
    pc = "returned" =>
        LET hits == {i \in 1..Len(content) : summary_p50_pattern(content[i]) # None}
        IN  /\ ("overall" \in DOMAIN FirstPass /\ hits # {}) =>
                  metrics["overall"].p50_ms =
                      summary_p50_pattern(content[CHOOSE i \in hits : \A j \in hits : j <= i])
            /\ "overall" \notin DOMAIN FirstPass => metrics = FirstPass

\* The numbers the lines label with one of the given labels.
Labelled(lines, labels) ==
    {Float(lines[i][j].num) :
        <<i, j>> \in {x \in (1..Len(lines)) \X (1..(MaxPhrases + 3)) :
                        /\ x[2] <= Len(lines[x[1]])
                        /\ lines[x[1]][x[2]].t = "metric"
                        /\ lines[x[1]][x[2]].s \in labels}}

\* C10: the override pass changes only the "overall" record, and leaves in
\* overall.p50 only a number a line labels p50 and in overall.p99 only a
\* number a line labels p99.
SummaryLabelRule ==
    pc = "returned" =>
        /\ DOMAIN metrics = DOMAIN FirstPass
        /\ \A name \in DOMAIN metrics \ {"overall"} : metrics[name] = FirstPass[name]
        /\ "overall" \in DOMAIN metrics =>
              /\ metrics["overall"].p50_ms \in {None} \cup Labelled(content, {"P50", "p50"})
              /\ metrics["overall"].p99_ms \in {None} \cup Labelled(content, {"P99", "p99"})

(***************************************************************************)
(* The report's properties (ReportSpec).                                   *)
(***************************************************************************)
\* The field a report line shows.
FieldOfLine(ms, line) ==
    Get(ms, line.test)[CASE line.metric = "P50" -> "p50_ms"
                         [] line.metric = "P99" -> "p99_ms"
                         [] line.metric = "qps" -> "throughput_qps"]

\* The latency lines of a test and a percentile.
LatencyLine(test, metric) ==
    {report.latency[i] : i \in {k \in 1..Len(report.latency) :
                                   /\ report.latency[k].test = test
                                   /\ report.latency[k].metric = metric}}

\* The baseline file gave overall P50 60.40 and P99 200.00, the optimized
\* file overall P50 30.20 and P99 200.00.
LatencyScenario ==
    /\ pc = "reported"
    /\ Get(baseline_metrics, "overall").p50_ms = 6040
    /\ Get(baseline_metrics, "overall").p99_ms = 20000
    /\ Get(optimized_metrics, "overall").p50_ms = 3020
    /\ Get(optimized_metrics, "overall").p99_ms = 20000

\* "+50.0% (2.0x)"
IsPlus50Twice(d) ==
    /\ d.applicable /\ d.text = "% (x)" /\ d.sign = "+" /\ ~d.negative
    /\ d.tenths = 500 /\ d.speedup = 20

\* "0.0%" when sign is "", "+0.0%" when sign is "+": no multiplier
IsZeroPercent(d, sign) ==
    /\ d.applicable /\ d.text = "%" /\ d.sign = sign /\ ~d.negative
    /\ d.tenths = 0 /\ d.speedup = None

\* C4, as stated: in the scenario the P50 line shows "+50.0% (2.0x)" and the
\* P99 line "+0.0%" without a multiplier.
LatencyScenarioOriginal ==
    LatencyScenario =>
        /\ \A l \in LatencyLine("overall", "P50") : IsPlus50Twice(l.improvement)
        /\ \A l \in LatencyLine("overall", "P99") : IsZeroPercent(l.improvement, "+")

\* C4, amended: in the scenario the P50 line shows "+50.0% (2.0x)" and the
\* P99 line "0.0%", without "+" and without a multiplier; and every latency
\* line whose baseline and optimized values are equal and positive shows
\* "0.0%" without a multiplier.
LatencyScenarioAmended ==
    /\ LatencyScenario =>
          /\ LatencyLine("overall", "P50") # {}
          /\ LatencyLine("overall", "P99") # {}
          /\ \A l \in LatencyLine("overall", "P50") : IsPlus50Twice(l.improvement)
          /\ \A l \in LatencyLine("overall", "P99") : IsZeroPercent(l.improvement, "")
    /\ pc = "reported" =>
          \A i \in 1..Len(report.latency) :
              LET l == report.latency[i]
                  b == FieldOfLine(baseline_metrics, l)
                  o == FieldOfLine(optimized_metrics, l)
              IN  (b > 0 /\ b = o) => IsZeroPercent(l.improvement, "")

\* The scenario was reported.
LatencyScenarioWitness ==
    /\ LatencyScenario
    /\ Len(report.latency) = 2

\* C5: when the optimized parse result has no SLA_Compliance record and no
\* p50, p99 or throughput of "overall" (also when it has no "overall" record
\* at all), the SLA section holds the three target lines, each N/A.
SlaAllNotApplicable ==
    (/\ pc = "reported"
     /\ "SLA_Compliance" \notin DOMAIN optimized_metrics
     /\ Get(optimized_metrics, "overall").p50_ms = None
     /\ Get(optimized_metrics, "overall").p99_ms = None
     /\ Get(optimized_metrics, "overall").throughput_qps = None)
    => /\ Len(report.sla) = 3
       /\ \A k \in 1..Len(report.sla) : report.sla[k].status = "N/A"

\* C9: a numeric slot of the report shows N/A exactly when its field is
\* absent; in the SLA section the slot is N/A exactly when the verdict is.
NumericSlotRule ==
    pc = "reported" =>
        /\ \A i \in 1..Len(report.latency) :
              LET l == report.latency[i]
              IN  /\ l.baseline.text = "N/A" <=> FieldOfLine(baseline_metrics, l) = None
                  /\ l.optimized.text = "N/A" <=> FieldOfLine(optimized_metrics, l) = None
        /\ \A i \in 1..Len(report.throughput) :
              LET l == report.throughput[i]
              IN  /\ l.baseline.text = "N/A" <=> FieldOfLine(baseline_metrics, l) = None
                  /\ l.optimized.text = "N/A" <=> FieldOfLine(optimized_metrics, l) = None
        /\ \A k \in 1..Len(report.sla) :
              report.sla[k].value.text = "N/A" <=> report.sla[k].status = "N/A"

=============================================================================
